---- MODULE Spec2Model ----
(***************************************************************************)
(* Model of the thruster selector: the physics engine and evaluator of     *)
(* src/src/calculator.py, the ranker of src/src/selector.py and the CLI    *)
(* driver of src/main.py.                                                  *)
(*                                                                         *)
(* Python floats are modelled as fixed-point numbers with three decimals   *)
(* (a finite value v stands for v / SCALE) extended with the IEEE special  *)
(* values +inf, -inf and NaN, whose arithmetic and comparisons follow      *)
(* IEEE 754 as Python does.  A Python exception is modelled as a result    *)
(* that carries the exception's name.                                      *)
(*                                                                         *)
(* A function whose body assigns a local and reads it several times is     *)
(* written as a chain of operators: the operator named after the function  *)
(* computes the first local and hands it, as an argument, to the operator  *)
(* that models the statements after the assignment.                        *)
(***************************************************************************)
EXTENDS Integers, Sequences, FiniteSets, TLC

\* ------------------------------------------------------------------------
\* Bounds of the model
\* ------------------------------------------------------------------------
\* longest thruster catalog that load_thrusters returns
MaxCat == 2

\* fixed-point resolution of a modelled float: three decimal digits
SCALE == 10 * 10 * 10

\* ------------------------------------------------------------------------
\* Python float values and their arithmetic
\* ------------------------------------------------------------------------
Fin(v) == [k |-> "fin", v |-> v]
Inf == [k |-> "inf", v |-> 0]
NInf == [k |-> "ninf", v |-> 0]
NaN == [k |-> "nan", v |-> 0]

\* a whole number n as a float
Num(n) == Fin(n * SCALE)

IsFin(a) == a.k = "fin"
IsNaN(a) == a.k = "nan"

Abs(n) == IF n < 0 THEN -n ELSE n
Sgn(a) == IF a.k = "inf" THEN 1
          ELSE IF a.k = "ninf" THEN -1
          ELSE IF a.v > 0 THEN 1 ELSE IF a.v < 0 THEN -1 ELSE 0
Signed(s) == IF s > 0 THEN Inf ELSE NInf

\* a < b on floats: any comparison with NaN is False
FLt(a, b) ==
    IF IsNaN(a) \/ IsNaN(b) THEN FALSE
    ELSE IF a.k = "ninf" THEN b.k # "ninf"
    ELSE IF a.k = "inf" THEN FALSE
    ELSE IF b.k = "inf" THEN TRUE
    ELSE IF b.k = "ninf" THEN FALSE
    ELSE a.v < b.v
FGt(a, b) == FLt(b, a)
FEq(a, b) == ~IsNaN(a) /\ ~IsNaN(b) /\ a = b
FLe(a, b) == FLt(a, b) \/ FEq(a, b)
FGe(a, b) == FLe(b, a)

\* a + b
FAdd(a, b) ==
    IF IsNaN(a) \/ IsNaN(b) THEN NaN
    ELSE IF IsFin(a) /\ IsFin(b) THEN Fin(a.v + b.v)
    ELSE IF IsFin(a) THEN b
    ELSE IF IsFin(b) THEN a
    ELSE IF a = b THEN a ELSE NaN

\* a - b
FSub(a, b) ==
    FAdd(a, IF IsNaN(b) THEN NaN
            ELSE IF IsFin(b) THEN Fin(-b.v)
            ELSE IF b.k = "inf" THEN NInf ELSE Inf)

\* floor(x * y / SCALE) for naturals x, y, without leaving 32 bits
MulMag(x, y) ==
    (x \div SCALE) * (y \div SCALE) * SCALE
    + (x \div SCALE) * (y % SCALE)
    + (x % SCALE) * (y \div SCALE)
    + ((x % SCALE) * (y % SCALE)) \div SCALE

\* floor(x * SCALE / y) for naturals x, y > 0 by decimal long division
DivMag(x, y) ==
    LET r0 == x % y
        d1 == (r0 * 10) \div y
        r1 == (r0 * 10) % y
        d2 == (r1 * 10) \div y
        r2 == (r1 * 10) % y
        d3 == (r2 * 10) \div y
    IN  (x \div y) * SCALE + d1 * 100 + d2 * 10 + d3

\* a * b: inf * 0 is NaN
FMul(a, b) ==
    IF IsNaN(a) \/ IsNaN(b) THEN NaN
    ELSE IF IsFin(a) /\ IsFin(b)
         THEN Fin(Sgn(a) * Sgn(b) * MulMag(Abs(a.v), Abs(b.v)))
    ELSE IF Sgn(a) * Sgn(b) = 0 THEN NaN
    ELSE Signed(Sgn(a) * Sgn(b))

\* a / b: inf / inf is NaN.  Python raises ZeroDivisionError for b = 0; every
\* division of the program has a divisor that the code has checked to be
\* positive, so that case is given the value NaN here and never taken.
FDiv(a, b) ==
    IF IsNaN(a) \/ IsNaN(b) THEN NaN
    ELSE IF IsFin(a) /\ IsFin(b)
         THEN IF b.v = 0 THEN NaN
              ELSE Fin(Sgn(a) * Sgn(b) * DivMag(Abs(a.v), Abs(b.v)))
    ELSE IF IsFin(b) THEN Signed(Sgn(a) * (IF b.v < 0 THEN -1 ELSE 1))
    ELSE IF IsFin(a) THEN Fin(0)
    ELSE NaN

\* number of terms of the exponential series
ExpTerms == 16

RECURSIVE ExpSum(_, _, _, _)
ExpSum(x, term, n, acc) ==
    IF n > ExpTerms \/ term = 0 THEN acc
    ELSE LET t == MulMag(term, x) \div n
         IN  ExpSum(x, t, n + 1, acc + t)

\* math.exp(a) for a >= 0: the power series 1 + x + x^2/2! + ...
FExp(a) ==
    IF IsNaN(a) THEN NaN
    ELSE IF a.k = "inf" THEN Inf
    ELSE IF a.k = "ninf" \/ a.v < 0 THEN Fin(0)
    ELSE Fin(ExpSum(a.v, SCALE, 1, SCALE))

\* ------------------------------------------------------------------------
\* Physical constants (calculator.py)
\* ------------------------------------------------------------------------
\* G0 = 9.81 in thousandths
G0_MILLI == 9810
G0 == Fin(G0_MILLI)
SECONDS_PER_DAY == 86400

\* ------------------------------------------------------------------------
\* Physics engine (calculator.py)
\* ------------------------------------------------------------------------
\* Thruster.thrust_N
thrust_N(thruster) == FDiv(thruster.thrust_mN, Num(1000))

calculate_propellant_mass(delta_v_ms, isp_s, dry_mass_kg) ==
    IF FLe(isp_s, Num(0)) \/ FLe(dry_mass_kg, Num(0)) THEN Inf
    ELSE LET mass_ratio == FExp(FDiv(delta_v_ms, FMul(isp_s, G0)))
         IN  FMul(dry_mass_kg, FSub(mass_ratio, Num(1)))

calculate_mission_duration(thrust, isp_s, propellant_kg) ==
    IF FLe(thrust, Num(0)) \/ FLe(isp_s, Num(0)) \/ FLe(propellant_kg, Num(0))
    THEN Inf
    ELSE LET exhaust_velocity == FMul(isp_s, G0)
             duration_seconds == FDiv(FMul(propellant_kg, exhaust_velocity), thrust)
         IN  FDiv(duration_seconds, Num(SECONDS_PER_DAY))

\* line 77 and the return, once dry, propellant and total mass are known
mass_breakdown_of(dry_mass_with_thruster, propellant_mass, total_mass) ==
    [dry_mass_with_thruster |-> dry_mass_with_thruster,
     propellant_mass |-> propellant_mass,
     total_mass |-> total_mass,
     fuel_ratio |-> IF FGt(total_mass, Num(0))
                    THEN FDiv(propellant_mass, total_mass) ELSE Inf]

\* line 76, once dry and propellant mass are known
mass_breakdown_with_propellant(dry_mass_with_thruster, propellant_mass) ==
    mass_breakdown_of(dry_mass_with_thruster, propellant_mass,
                      FAdd(dry_mass_with_thruster, propellant_mass))

\* lines 73-75, once the dry mass is known
mass_breakdown_with_dry(delta_v_ms, isp_s, dry_mass_with_thruster) ==
    mass_breakdown_with_propellant(
        dry_mass_with_thruster,
        calculate_propellant_mass(delta_v_ms, isp_s, dry_mass_with_thruster))

calculate_mass_breakdown(thruster, requirements) ==
    mass_breakdown_with_dry(
        requirements.delta_v_ms, thruster.isp_s,
        FAdd(requirements.satellite_dry_mass_kg, thruster.mass_kg))

\* int(x): truncation; Python raises OverflowError for an infinity and
\* ValueError for NaN
PyInt(a) ==
    IF IsFin(a) THEN [exc |-> "none", v |-> Sgn(a) * (Abs(a.v) \div SCALE)]
    ELSE IF IsNaN(a) THEN [exc |-> "ValueError", v |-> 0]
    ELSE [exc |-> "OverflowError", v |-> 0]

Max(a, b) == IF a >= b THEN a ELSE b

\* max(1, n) of a converted number
AtLeastOne(n) == [exc |-> n.exc, v |-> Max(1, n.v)]

\* lines 103-108, once total_orbits is known
burns_of(total_orbits, thruster_power_W, available_power_W) ==
    IF FGt(thruster_power_W, available_power_W)
    THEN PyInt(FMul(total_orbits, Num(2)))
    ELSE AtLeastOne(PyInt(FDiv(total_orbits, Num(10))))

\* Variant of estimate_number_of_burns that reports no burns for a duration
\* that is not finite instead of converting it.
estimate_number_of_burns_guarded(mission_duration_days, thruster_power_W, available_power_W) ==
    IF ~IsFin(mission_duration_days) THEN [exc |-> "none", v |-> 0]
    ELSE burns_of(FMul(mission_duration_days, Num(15)), thruster_power_W,
                  available_power_W)

estimate_number_of_burns(mission_duration_days, thruster_power_W, available_power_W) ==
    burns_of(FMul(mission_duration_days, Num(15)), thruster_power_W, available_power_W)

\* ------------------------------------------------------------------------
\* Evaluator (calculator.py)
\* ------------------------------------------------------------------------
\* reasons.append(r) when the check fails
AppendIf(reasons, failed, r) == IF failed THEN Append(reasons, r) ELSE reasons

\* the return of check_feasibility
verdict_of(reasons) == [is_feasible |-> Len(reasons) = 0, reasons |-> reasons]

\* Variant of the checks that stops at the first failed one.
reasons_first_only(thruster, requirements, mb) ==
    IF thruster.trl < requirements.min_trl THEN <<"TRL">>
    ELSE IF FGt(thruster.power_W,
                FMul(requirements.available_power_W, requirements.max_duty_cycle))
         THEN <<"Power">>
    ELSE IF FLe(thruster.isp_s, Num(0)) THEN <<"Isp">>
    ELSE IF FLe(thrust_N(thruster), Num(0)) THEN <<"Thrust">>
    ELSE IF FGt(mb.total_mass, requirements.mass_budget_kg) THEN <<"MassBudget">>
    ELSE IF FGt(mb.fuel_ratio, Fin(SCALE \div 2)) THEN <<"FuelRatio">>
    ELSE <<>>

\* Variant of check_feasibility that returns at the first failed check.
check_feasibility_first_only(thruster, requirements) ==
    verdict_of(reasons_first_only(thruster, requirements,
                                  calculate_mass_breakdown(thruster, requirements)))

\* Variant of the checks that compares the fuel ratio, a fraction, with the
\* limit written as a percentage.
reasons_percent_limit(thruster, requirements, mb) ==
    LET r0 == <<>>
        r1 == AppendIf(r0, thruster.trl < requirements.min_trl, "TRL")
        max_acceptable_power ==
            FMul(requirements.available_power_W, requirements.max_duty_cycle)
        r2 == AppendIf(r1, FGt(thruster.power_W, max_acceptable_power), "Power")
        r3 == AppendIf(r2, FLe(thruster.isp_s, Num(0)), "Isp")
        r4 == AppendIf(r3, FLe(thrust_N(thruster), Num(0)), "Thrust")
        r5 == AppendIf(r4, FGt(mb.total_mass, requirements.mass_budget_kg), "MassBudget")
    IN  AppendIf(r5, FGt(mb.fuel_ratio, Num(50)), "FuelRatio")

\* Variant of check_feasibility with that limit.
check_feasibility_percent_limit(thruster, requirements) ==
    verdict_of(reasons_percent_limit(thruster, requirements,
                                     calculate_mass_breakdown(thruster, requirements)))

\* The six checks of check_feasibility, lines 124-159, with the mass
\* breakdown of line 146.  The reason strings are modelled by the name of
\* the check that produced them.
reasons_of(thruster, requirements, mb) ==
    LET r0 == <<>>
        r1 == AppendIf(r0, thruster.trl < requirements.min_trl, "TRL")
        max_acceptable_power ==
            FMul(requirements.available_power_W, requirements.max_duty_cycle)
        r2 == AppendIf(r1, FGt(thruster.power_W, max_acceptable_power), "Power")
        r3 == AppendIf(r2, FLe(thruster.isp_s, Num(0)), "Isp")
        r4 == AppendIf(r3, FLe(thrust_N(thruster), Num(0)), "Thrust")
        r5 == AppendIf(r4, FGt(mb.total_mass, requirements.mass_budget_kg), "MassBudget")
    IN  AppendIf(r5, FGt(mb.fuel_ratio, Fin(SCALE \div 2)), "FuelRatio")

check_feasibility(thruster, requirements) ==
    verdict_of(reasons_of(thruster, requirements,
                          calculate_mass_breakdown(thruster, requirements)))

\* The result of a call that raised: only the exception's name.
Raised(e) == [exc |-> e]

\* lines 209-221: the record, unless the burn estimate raised
performance_of(thruster, mb, mission_duration, num_burns, feas, mass_score, time_score, mass_weight, time_weight) ==
    IF num_burns.exc # "none" THEN Raised(num_burns.exc)
    ELSE [exc |-> "none",
          thruster |-> thruster,
          propellant_mass_kg |-> mb.propellant_mass,
          total_mass_kg |-> mb.total_mass,
          mission_duration_days |-> mission_duration,
          num_burns_estimate |-> num_burns.v,
          fuel_ratio_percent |-> FMul(mb.fuel_ratio, Num(100)),
          is_feasible |-> feas.is_feasible,
          infeasibility_reasons |-> feas.reasons,
          mass_score |-> mass_score,
          time_score |-> time_score,
          combined_score |-> FAdd(FMul(mass_weight, mass_score),
                                  FMul(time_weight, time_score))]

\* lines 192-207, once the masses and the mission duration are known
evaluate_with_duration(thruster, requirements, mass_weight, time_weight, mb, mission_duration) ==
    performance_of(
        thruster, mb, mission_duration,
        estimate_number_of_burns(mission_duration, thruster.power_W,
                                 requirements.available_power_W),
        check_feasibility(thruster, requirements),
        FDiv(mb.total_mass, requirements.mass_budget_kg),
        FDiv(mission_duration, Num(365)),
        mass_weight, time_weight)

\* lines 187-190, once the masses are known
evaluate_with_masses(thruster, requirements, mass_weight, time_weight, mb) ==
    evaluate_with_duration(
        thruster, requirements, mass_weight, time_weight, mb,
        calculate_mission_duration(thrust_N(thruster), thruster.isp_s,
                                   mb.propellant_mass))

evaluate_thruster(thruster, requirements, mass_weight, time_weight) ==
    evaluate_with_masses(thruster, requirements, mass_weight, time_weight,
                         calculate_mass_breakdown(thruster, requirements))

\* ------------------------------------------------------------------------
\* Ranker (selector.py)
\* ------------------------------------------------------------------------
\* Variant of InsertPos that puts x before the elements of equal key.
RECURSIVE InsertPos_before_equal(_, _, _)
InsertPos_before_equal(sorted, x, i) ==
    IF i > Len(sorted) THEN i
    ELSE IF FLe(x.combined_score, sorted[i].combined_score) THEN i
    ELSE InsertPos_before_equal(sorted, x, i + 1)

\* list.sort(key=combined_score): a stable insertion sort that compares keys
\* with < only.  x goes before the first element whose key is greater.
RECURSIVE InsertPos(_, _, _)
InsertPos(sorted, x, i) ==
    IF i > Len(sorted) THEN i
    ELSE IF FLt(x.combined_score, sorted[i].combined_score) THEN i
    ELSE InsertPos(sorted, x, i + 1)

InsertAt(sorted, x, p) ==
    SubSeq(sorted, 1, p - 1) \o <<x>> \o SubSeq(sorted, p, Len(sorted))

Insert(sorted, x) == InsertAt(sorted, x, InsertPos(sorted, x, 1))

RECURSIVE SortFrom(_, _, _)
SortFrom(results, i, sorted) ==
    IF i > Len(results) THEN sorted
    ELSE SortFrom(results, i + 1, Insert(sorted, results[i]))

\* Variant of the sort that leaves the list in evaluation order.
SortByCombinedScore_unsorted(results) == results

SortByCombinedScore(results) == SortFrom(results, 1, <<>>)

RECURSIVE SelectLoop(_, _, _, _, _, _, _)

\* lines 63-64 for the i-th thruster, and the rest of the loop; an exception
\* of evaluate_thruster ends the call
SelectStep(requirements, thrusters, mass_weight, time_weight, show_infeasible, i, results, performance) ==
    IF performance.exc # "none" THEN [exc |-> performance.exc, results |-> <<>>]
    ELSE SelectLoop(requirements, thrusters, mass_weight, time_weight,
                    show_infeasible, i + 1,
                    IF show_infeasible \/ performance.is_feasible
                    THEN Append(results, performance) ELSE results)

\* the for loop of select_thrusters from the i-th thruster on
SelectLoop(requirements, thrusters, mass_weight, time_weight, show_infeasible, i, results) ==
    IF i > Len(thrusters) THEN [exc |-> "none", results |-> results]
    ELSE SelectStep(requirements, thrusters, mass_weight, time_weight,
                    show_infeasible, i, results,
                    evaluate_thruster(thrusters[i], requirements, mass_weight,
                                      time_weight))

\* lines 66-69 after the loop
SortIfReturned(loop) ==
    IF loop.exc # "none" THEN loop
    ELSE [exc |-> "none", results |-> SortByCombinedScore(loop.results)]

select_thrusters(requirements, thrusters, mass_weight, time_weight, show_infeasible) ==
    SortIfReturned(SelectLoop(requirements, thrusters, mass_weight, time_weight,
                              show_infeasible, 1, <<>>))

\* ------------------------------------------------------------------------
\* Inputs: command lines and catalog files
\* ------------------------------------------------------------------------
\* a decimal number given in thousandths
Milli(n) == Fin(n)

\* --delta-v, --sat-mass, --power, --budget, --mass-weight, --time-weight
DeltaVs == {Num(0 - 1), Num(0), Num(1000)}
SatMasses == {Num(0), Num(2)}
Powers == {Num(0), Num(30)}
Budgets == {Num(0), Num(10)}
MassWeights == {Num(0), Milli(400), Milli(1500)}
TimeWeights == {Num(0), Milli(600)}

ArgSets ==
    [delta_v : DeltaVs, sat_mass : SatMasses, power : Powers, budget : Budgets,
     min_trl : {6}, duty_cycle : {Num(3)},
     mass_weight : MassWeights, time_weight : TimeWeights,
     show_all : BOOLEAN]

\* a catalog entry; the fields the engine never reads (id, name,
\* manufacturer, type, thrust_efficiency, propellant) are left out
Thruster(isp, thrust, power, mass, trl) ==
    [isp_s |-> Num(isp), thrust_mN |-> Num(thrust), power_W |-> Num(power),
     mass_kg |-> Num(mass), trl |-> trl]

\* the thrusters a catalog file can list: a working thruster; thrusters
\* that fail one check each (fuel ratio, power limit, minimum TRL); a
\* high-thrust, a low-power and a heavy, immature one; and thrusters with no
\* specific impulse, no thrust, or neither
ThrusterPool ==
    {Thruster(200, 5, 90, 1, 7),
     Thruster(100, 5, 90, 1, 7), Thruster(200, 5, 100, 1, 7), Thruster(200, 5, 90, 1, 5),
     Thruster(100, 10, 90, 1, 7), Thruster(200, 5, 30, 1, 7), Thruster(200, 5, 90, 5, 5),
     Thruster(0, 5, 90, 1, 7), Thruster(200, 0, 90, 1, 7), Thruster(0, 0, 100, 1, 5)}

\* the contents load_thrusters can find at the --data path
CatalogFiles ==
    {[kind |-> k, items |-> <<>>] : k \in {"missing", "no_list", "bad_record"}}
    \cup {[kind |-> "ok", items |-> c] :
            c \in UNION {[1..n -> ThrusterPool] : n \in 0..MaxCat}}

\* ------------------------------------------------------------------------
\* The CLI run (main.py)
\* ------------------------------------------------------------------------
VARIABLES
    pc,             \* position of main()
    args,           \* parsed command line
    requirements,   \* MissionRequirements built by main
    mass_weight,    \* normalized weights
    time_weight,
    data_file,      \* what load_thrusters found at the --data path
    thrusters,      \* list returned by load_thrusters
    results,        \* list returned by select_thrusters
    select_calls,   \* number of calls of select_thrusters
    report,         \* what the run has reported about a failure
    exit_status     \* exit status of the process, -1 while it runs

vars == <<pc, args, requirements, mass_weight, time_weight, data_file, thrusters, results,
          select_calls, report, exit_status>>

Init ==
    /\ pc = "validate"
    /\ args \in ArgSets
    /\ requirements = "unset"
    /\ mass_weight = NaN
    /\ time_weight = NaN
    /\ data_file = [kind |-> "unread", items |-> <<>>]
    /\ thrusters = <<>>
    /\ results = <<>>
    /\ select_calls = 0
    /\ report = "none"
    /\ exit_status = -1

\* the first failing validation of main, "none" if the arguments pass
ValidationError(a) ==
    IF FLt(a.delta_v, Num(0)) THEN "Delta-v must be zero or positive"
    ELSE IF FLe(a.sat_mass, Num(0)) THEN "Satellite mass must be positive"
    ELSE IF FLe(a.power, Num(0)) THEN "Power must be positive"
    ELSE IF FLe(a.budget, Num(0)) THEN "Mass budget must be positive"
    ELSE IF ~(/\ FLe(Num(0), a.mass_weight) /\ FLe(a.mass_weight, Num(1))
              /\ FLe(Num(0), a.time_weight) /\ FLe(a.time_weight, Num(1)))
         THEN "Weights must be between 0 and 1"
    ELSE IF FLe(FAdd(a.mass_weight, a.time_weight), Num(0))
         THEN "At least one of the weights must be positive"
    ELSE "none"

\* main, from the validation of the arguments to the construction of the
\* requirements; parser.error reports and exits with status 2
Validate ==
    /\ pc = "validate"
    /\ \E err \in {ValidationError(args)},
          weight_sum \in {FAdd(args.mass_weight, args.time_weight)} :
           IF err # "none"
           THEN /\ pc' = "exited"
                /\ report' = err
                /\ exit_status' = 2
                /\ UNCHANGED <<requirements, mass_weight, time_weight>>
           ELSE /\ pc' = "load"
                /\ mass_weight' = FDiv(args.mass_weight, weight_sum)
                /\ time_weight' = FDiv(args.time_weight, weight_sum)
                /\ requirements' =
                       [delta_v_ms |-> args.delta_v,
                        satellite_dry_mass_kg |-> args.sat_mass,
                        available_power_W |-> args.power,
                        mass_budget_kg |-> args.budget,
                        min_trl |-> args.min_trl,
                        max_duty_cycle |-> args.duty_cycle]
                /\ UNCHANGED <<report, exit_status>>
    /\ UNCHANGED <<args, data_file, thrusters, results, select_calls>>

\* Variant of load_thrusters that skips the records it cannot build.
load_thrusters_skip_bad(file) ==
    IF file.kind = "missing" THEN [exc |-> "FileNotFoundError", thrusters |-> <<>>]
    ELSE IF file.kind = "no_list" THEN [exc |-> "ValueError", thrusters |-> <<>>]
    ELSE [exc |-> "none", thrusters |-> file.items]

\* load_thrusters: the exception it raises on a catalog file, "none" if it
\* returns the list
load_thrusters(file) ==
    IF file.kind = "missing" THEN [exc |-> "FileNotFoundError", thrusters |-> <<>>]
    ELSE IF file.kind = "no_list" THEN [exc |-> "ValueError", thrusters |-> <<>>]
    ELSE IF file.kind = "bad_record" THEN [exc |-> "TypeError", thrusters |-> <<>>]
    ELSE [exc |-> "none", thrusters |-> file.items]

\* main's try block: FileNotFoundError and ValueError are caught, printed and
\* main returns 1; any other exception leaves main uncaught: the interpreter
\* prints the traceback and exits with status 1
LoadThrusters ==
    /\ pc = "load"
    /\ \E file \in CatalogFiles :
         \E r \in {load_thrusters(file)} :
             /\ data_file' = file
             /\ IF r.exc = "none"
                THEN /\ pc' = "select"
                     /\ thrusters' = r.thrusters
                     /\ UNCHANGED <<report, exit_status>>
                ELSE /\ pc' = "exited"
                     /\ report' = r.exc
                     /\ exit_status' = 1
                     /\ UNCHANGED thrusters
    /\ UNCHANGED <<args, requirements, mass_weight, time_weight, results, select_calls>>

\* main's call of select_thrusters; an exception leaves main uncaught
SelectThrusters ==
    /\ pc = "select"
    /\ select_calls' = select_calls + 1
    /\ \E r \in {select_thrusters(requirements, thrusters, mass_weight, time_weight,
                                  args.show_all)} :
           IF r.exc = "none"
           THEN /\ pc' = "print"
                /\ results' = r.results
                /\ UNCHANGED <<report, exit_status>>
           ELSE /\ pc' = "exited"
                /\ report' = r.exc
                /\ exit_status' = 1
                /\ UNCHANGED results
    /\ UNCHANGED <<args, requirements, mass_weight, time_weight, data_file, thrusters>>

\* print_results and return 0
PrintResults ==
    /\ pc = "print"
    /\ pc' = "exited"
    /\ exit_status' = 0
    /\ UNCHANGED <<args, requirements, mass_weight, time_weight, data_file, thrusters,
                   results, select_calls, report>>

Next == Validate \/ LoadThrusters \/ SelectThrusters \/ PrintResults

Spec == Init /\ [][Next]_vars

\* ------------------------------------------------------------------------
\* Vocabulary of the properties
\* ------------------------------------------------------------------------
\* select_thrusters has been called in this run
SelectCalled == select_calls > 0

\* the call of select_thrusters returned its list to main
SelectReturned == SelectCalled /\ report = "none"

\* main is at the statement after its call of select_thrusters, or the call
\* has raised
AtSelectResult == pc = "print" \/ (SelectCalled /\ report # "none")

\* the record evaluate_thruster produces for the i-th loaded thruster
PerformanceOf(i) ==
    evaluate_thruster(thrusters[i], requirements, mass_weight, time_weight)

\* the i-th loaded thruster has an infinite propellant mass
InfinitePropellant(i) ==
    calculate_mass_breakdown(thrusters[i], requirements).propellant_mass = Inf

\* the six conditions of the feasibility check, in the order of the checks
Violations(t, req) ==
    LET mb == calculate_mass_breakdown(t, req)
    IN  << [name |-> "TRL", violated |-> t.trl < req.min_trl],
           [name |-> "Power",
            violated |-> FGt(t.power_W, FMul(req.available_power_W, req.max_duty_cycle))],
           [name |-> "Isp", violated |-> FLe(t.isp_s, Num(0))],
           [name |-> "Thrust", violated |-> FLe(t.thrust_mN, Num(0))],
           [name |-> "MassBudget", violated |-> FGt(mb.total_mass, req.mass_budget_kg)],
           [name |-> "FuelRatio", violated |-> FGt(mb.fuel_ratio, Fin(500))] >>

\* reasons lists exactly the violated conditions, once each, in check order
ExactlyTheViolated(reasons, t, req) ==
    LET v == Violations(t, req)
        hit == {j \in DOMAIN v : v[j].violated}
    IN  /\ Len(reasons) = Cardinality(hit)
        /\ \A j \in hit : \E n \in DOMAIN reasons : reasons[n] = v[j].name
        /\ \A m, n \in DOMAIN reasons :
             m < n => \E j, l \in hit : /\ j < l
                                        /\ reasons[m] = v[j].name
                                        /\ reasons[n] = v[l].name

\* number of positions of the sequence s that hold x
Count(s, x) == Cardinality({i \in DOMAIN s : s[i] = x})

\* the orders in which a list of n elements can be given
Orders(n) ==
    {q \in [1..n -> 1..n] : \A i, j \in 1..n : q[i] = q[j] => i = j}

\* the command line is one that main must reject
InvalidInput(a) ==
    \/ a.delta_v.v < 0
    \/ a.sat_mass.v <= 0
    \/ a.power.v <= 0
    \/ a.budget.v <= 0
    \/ a.mass_weight.v < 0 \/ a.mass_weight.v > SCALE
    \/ a.time_weight.v < 0 \/ a.time_weight.v > SCALE
    \/ (a.mass_weight.v = 0 /\ a.time_weight.v = 0)

\* the catalog file is one that load_thrusters must reject
CatalogFailure == data_file.kind \in {"missing", "no_list", "bad_record"}

\* ------------------------------------------------------------------------
\* C1: evaluate_thruster returns a record, without raising, for every
\* thruster of a run with validated requirements; for a thruster with
\* isp <= 0 or thrust <= 0 the record is infeasible and its mission
\* duration is infinite.
\* ------------------------------------------------------------------------
C1_EvaluateNeverRaises ==
    SelectCalled =>
        \A i \in DOMAIN thrusters :
            LET p == PerformanceOf(i)
                t == thrusters[i]
            IN  /\ p.exc = "none"
                /\ (FLe(t.isp_s, Num(0)) \/ FLe(t.thrust_mN, Num(0)))
                      => ~p.is_feasible /\ p.mission_duration_days = Inf

\* ------------------------------------------------------------------------
\* C2: when the propellant mass is +infinity nothing derived from it is
\* NaN: total mass and fuel ratio are +infinity, and so are the mass, time
\* and combined scores.
\* ------------------------------------------------------------------------
C2_InfinityPropagates ==
    SelectCalled =>
        \A i \in DOMAIN thrusters :
            InfinitePropellant(i) =>
                LET mb == calculate_mass_breakdown(thrusters[i], requirements)
                    p == PerformanceOf(i)
                IN  /\ mb.total_mass = Inf
                    /\ mb.fuel_ratio = Inf
                    /\ p.exc = "none"
                    /\ p.mass_score = Inf
                    /\ p.time_score = Inf
                    /\ p.combined_score = Inf

\* ------------------------------------------------------------------------
\* C3: check_feasibility runs all six checks: its reason list holds exactly
\* one reason per violated condition, in check order, and the verdict is
\* True iff the list is empty.  This holds of the check of every loaded
\* thruster and of every record select_thrusters returned.
\* ------------------------------------------------------------------------
C3_AllChecksRun ==
    /\ pc \in {"select", "print"} =>
         \A i \in DOMAIN thrusters :
            LET f == check_feasibility(thrusters[i], requirements)
            IN  /\ ExactlyTheViolated(f.reasons, thrusters[i], requirements)
                /\ f.is_feasible <=> (f.reasons = <<>>)
    /\ SelectReturned =>
         \A n \in DOMAIN results :
            /\ ExactlyTheViolated(results[n].infeasibility_reasons,
                                  results[n].thruster, requirements)
            /\ results[n].is_feasible <=> (results[n].infeasibility_reasons = <<>>)

\* a returned record of a thruster that violates only TRL and mass budget
C3_Witness ==
    /\ SelectReturned
    /\ \E n \in DOMAIN results :
         /\ results[n].infeasibility_reasons = <<"TRL", "MassBudget">>
         /\ ~results[n].is_feasible

\* ------------------------------------------------------------------------
\* C4: the list select_thrusters returns is non-decreasing in
\* combined_score, and records with equal combined_score stand in the
\* relative order of their thrusters in the input list.
\* ------------------------------------------------------------------------
C4_SortedAndStable ==
    SelectReturned =>
        /\ \A m, n \in DOMAIN results :
             m < n => FLe(results[m].combined_score, results[n].combined_score)
        /\ \E f \in [DOMAIN results -> DOMAIN thrusters] :
             /\ \A m, n \in DOMAIN results : f[m] = f[n] => m = n
             /\ \A n \in DOMAIN results : results[n] = PerformanceOf(f[n])
             /\ \A m, n \in DOMAIN results :
                  (m < n /\ FEq(results[m].combined_score, results[n].combined_score))
                     => f[m] < f[n]

\* two different records with the same score have been ranked
C4_Witness ==
    /\ SelectReturned
    /\ \E m, n \in DOMAIN results :
         /\ m < n
         /\ results[m] # results[n]
         /\ FEq(results[m].combined_score, results[n].combined_score)

\* ------------------------------------------------------------------------
\* C5: select_thrusters returns, without an error, one record per kept
\* candidate: all inputs with show_infeasible, exactly the feasible inputs
\* without it, and an empty list for an empty or wholly filtered input.
\* ------------------------------------------------------------------------
C5_OneRecordPerKeptCandidate ==
    SelectCalled =>
        /\ report = "none"
        /\ args.show_all => Len(results) = Len(thrusters)
        /\ \A i \in DOMAIN thrusters :
             LET p == PerformanceOf(i)
             IN  /\ p.exc = "none"
                 /\ Count(results, p) =
                       IF args.show_all \/ p.is_feasible
                       THEN Cardinality({j \in DOMAIN thrusters : PerformanceOf(j) = p})
                       ELSE 0
        /\ ~args.show_all => \A n \in DOMAIN results : results[n].is_feasible

\* ------------------------------------------------------------------------
\* C6: with show_infeasible, every candidate whose propellant mass is
\* infinite is in the result with a combined_score, after every record
\* whose combined_score is finite.
\* ------------------------------------------------------------------------
C6_InfiniteRankedLast ==
    (SelectCalled /\ args.show_all) =>
        \A i \in DOMAIN thrusters :
            InfinitePropellant(i) =>
                \E n \in DOMAIN results :
                    /\ results[n].thruster = thrusters[i]
                    /\ ~IsNaN(results[n].combined_score)
                    /\ \A m \in DOMAIN results :
                         IsFin(results[m].combined_score) => m < n

\* ------------------------------------------------------------------------
\* C7: once main has found an invalid argument or a failing catalog, the
\* run has ended with a report and a non-zero exit status, and
\* select_thrusters has not been called.
\* ------------------------------------------------------------------------
C7_FailuresStopTheRun ==
    /\ InvalidInput(args) => select_calls = 0 /\ data_file.kind = "unread"
    /\ (InvalidInput(args) /\ pc # "validate") \/ CatalogFailure =>
         /\ pc = "exited"
         /\ report # "none"
         /\ exit_status > 0
         /\ select_calls = 0

\* a run that ended on a catalog record lacking a field
C7_Witness ==
    /\ pc = "exited"
    /\ data_file.kind = "bad_record"
    /\ report = "TypeError"
    /\ exit_status = 1

\* ------------------------------------------------------------------------
\* C8: the order of the candidates does not affect the result: when
\* select_thrusters has returned or raised, then on every
\* permutation of the input select_thrusters raises iff it raised on the
\* input, and otherwise returns the same multiset of records with the same
\* sequence of scores (the same order except among equal scores); the input
\* list and the requirements are as they were before the call.
\* ------------------------------------------------------------------------
C8_OrderIndependent ==
    AtSelectResult =>
        /\ thrusters = data_file.items
        /\ requirements = [delta_v_ms |-> args.delta_v,
                           satellite_dry_mass_kg |-> args.sat_mass,
                           available_power_W |-> args.power,
                           mass_budget_kg |-> args.budget,
                           min_trl |-> args.min_trl,
                           max_duty_cycle |-> args.duty_cycle]
        /\ \A q \in Orders(Len(thrusters)) :
             LET permuted == [i \in DOMAIN thrusters |-> thrusters[q[i]]]
                 r == select_thrusters(requirements, permuted, mass_weight,
                                       time_weight, args.show_all)
             IN  /\ (r.exc = "none") <=> (report = "none")
                 /\ r.exc = "none" =>
                      /\ Len(r.results) = Len(results)
                      /\ \A n \in DOMAIN results :
                           /\ r.results[n].combined_score = results[n].combined_score
                           /\ Count(r.results, results[n]) = Count(results, results[n])

\* a ranking that reordered its input
C8_Witness ==
    /\ pc = "print"
    /\ Len(results) >= 2
    /\ Len(results) = Len(thrusters)
    /\ results[1].thruster # thrusters[1]

\* the verdict of the record p agrees with its figures
VerdictAgrees(p, req) ==
    /\ p.is_feasible =>
         /\ FLe(p.total_mass_kg, req.mass_budget_kg)
         /\ FLe(p.mass_score, Num(1))
         /\ FLe(p.fuel_ratio_percent, Num(50))
         /\ p.thruster.trl >= req.min_trl
         /\ FLe(p.thruster.power_W, FMul(req.available_power_W, req.max_duty_cycle))
         /\ FGt(p.thruster.isp_s, Num(0))
         /\ FGt(p.thruster.thrust_mN, Num(0))
    /\ (p.infeasibility_reasons = <<>>) <=> p.is_feasible

\* ------------------------------------------------------------------------
\* C9: in every record evaluate_thruster produces the verdict agrees with
\* the figures of the record: a feasible record is within the mass budget
\* (mass_score <= 1), has a fuel ratio of at most 50 percent, meets the
\* minimum TRL and the power limit and has positive isp and thrust; and
\* its reason list is empty iff it is feasible.
\* ------------------------------------------------------------------------
C9_VerdictAgreesWithRecord ==
    SelectCalled =>
        /\ \A i \in DOMAIN thrusters :
             PerformanceOf(i).exc = "none" => VerdictAgrees(PerformanceOf(i), requirements)
        /\ \A n \in DOMAIN results : VerdictAgrees(results[n], requirements)

\* a feasible record next to an infeasible one
C9_Witness ==
    /\ SelectReturned
    /\ \E m, n \in DOMAIN results : results[m].is_feasible /\ ~results[n].is_feasible

\* a feasible record p has finite times and score
FiniteTimes(p) ==
    p.is_feasible =>
        /\ IsFin(p.mission_duration_days)
        /\ IsFin(p.time_score)
        /\ IsFin(p.combined_score)

\* ------------------------------------------------------------------------
\* C10: every feasible record has a finite mission duration, a finite
\* time_score and a finite combined_score, for every delta_v >= 0 of a
\* validated run (delta_v = 0 included) and every loaded thruster.
\* ------------------------------------------------------------------------
C10_FeasibleIsFinite ==
    SelectCalled =>
        /\ \A i \in DOMAIN thrusters :
             PerformanceOf(i).exc = "none" => FiniteTimes(PerformanceOf(i))
        /\ \A n \in DOMAIN results : FiniteTimes(results[n])

\* a feasible record has been returned
C10_Witness ==
    /\ SelectReturned
    /\ \E n \in DOMAIN results :
         results[n].is_feasible /\ IsFin(results[n].mission_duration_days)

====
